---- MODULE Spec2Model ----
(***************************************************************************)
(* Model of the gaze-sample CSV exporter (src/core/csv_exporter.py):       *)
(* per-field validation, timestamp window and sequence diagnostics,        *)
(* buffered export with flush at capacity and at end of input, and the     *)
(* end-of-session statistics.                                              *)
(*                                                                         *)
(* Numbers.  A Python number is modelled as a fixed-point value            *)
(* [k |-> "num", v, m] standing for v + m/1000 with 0 <= m < 1000, so that  *)
(* int(), float(), the range checks and round(_, n) are computed and not   *)
(* assumed; round(_, n) works on the binary double stored for the value.   *)
(* The other kinds are the raw values a capture layer can hand             *)
(* over: None, "", a non-numeric string, NaN, Infinity, an integer too     *)
(* large for a float (10**400), a list; "missing" is a key that is not in  *)
(* the mapping.                                                            *)
(***************************************************************************)
EXTENDS Integers, Sequences, FiniteSets, TLC

VARIABLES
    buffer_size,        \* self.buffer_size
    data_buffer,        \* self.data_buffer: sequence of validated records
    performance_stats,  \* self.performance_stats (the three counters and processing_time)
    last_timestamp,     \* self.last_timestamp; has = FALSE while the attribute does not exist
    output,             \* the io.StringIO sink of the running export: header flag and data rows
    result,             \* what the last export_session call returned
    pc,                 \* position of the current export_session call
    data,               \* the loop variable of export_session: the sample consumed last
    accepted,           \* history: validated records accepted in the current export, in order
    tsHist,             \* history: timestamps accepted by validate_timestamp in the current export
    warnings,           \* history: out-of-sequence and gap warnings logged in the current export
    flush,              \* history: the _flush_buffer calls of this export (calls, failed), the outcome of
                        \* the call made in the last step (last, wrote), and whether a call ever raised (ever)
    step,               \* history: the last loop iteration: its verdict, its clock reading, its warnings
    e2e,                \* history: how many records of EndToEndInput this export has consumed, -1 once it differs
    exports,            \* history: number of export_session calls started on this exporter
    consumed,           \* history: number of samples consumed over the exporter's life
    session,            \* the session_data["gaze_data"] of a session that is exported twice
    idx,                \* how many samples of session the running export has consumed
    verdicts,           \* history: the verdict of each sample of session in the running export
    first,              \* history: what the first of the two exports returned, and its verdicts
    call                \* the last direct call of a field validator: arguments and outcome

vars == << buffer_size, data_buffer, performance_stats, last_timestamp,
           output, result, pc, data, accepted, tsHist, warnings, flush, step,
           e2e, exports, consumed, session, idx, verdicts, first, call >>

(* the variables that only the exports of one session twice and the direct *)
(* validator calls use                                                     *)
probes == << session, idx, verdicts, first, call >>

----------------------------------------------------------------------------
(* Bounds of the model *)

MaxRecords == 3         \* samples consumed over the exporter's life
MaxBufferSize == 2      \* buffer capacities 1..MaxBufferSize
MaxExports == 2         \* export_session calls on one exporter
MaxSession == 2         \* samples in a session that is exported twice
ClockStart == 5000000   \* the clock when the exporter is made, in ms

(* Readings of the environment *)

(* int(time.time() * 1000) in validate_timestamp: the wall clock, which is not *)
(* monotonic, read anew for every sample                                       *)
ClockReadings == {ClockStart, ClockStart + 1}

(* time.time() - start_time at the end of an export: zero on a coarse clock *)
ElapsedReadings == {0, 1}

(* Program constants *)

HourMs == 3600000       \* 60 * 60 * 1000
FutureToleranceMs == 1000
GapThresholdMs == 1000
SampleInterval == 16
ConfidenceMin == 0
ConfidenceMax == 1
PupilMin == 2
PupilMax == 8

----------------------------------------------------------------------------
(* Values *)

Val(k, v, m) == [k |-> k, v |-> v, m |-> m]
Missing == Val("missing", 0, 0)
NoneV   == Val("none", 0, 0)
EmptyStr == Val("empty", 0, 0)
Text    == Val("text", 0, 0)
NaN     == Val("nan", 0, 0)
Inf     == Val("inf", 0, 0)
Huge    == Val("huge", 0, 0)
ListV   == Val("list", 0, 0)
Num(v, m) == Val("num", v, m)

(* variant: y is not checked for presence *)
required_fields_no_y == << "timestamp", "x" >>

required_fields == << "timestamp", "x", "y" >>

numeric_fields == << "x", "y", "confidence", "pupilD", "docX", "docY",
                     "HeadX", "HeadY", "HeadZ", "HeadYaw", "HeadPitch", "HeadRoll" >>

Keys == {"timestamp"} \cup { numeric_fields[i] : i \in 1..Len(numeric_fields) }

(* `field in data` and data.get(field) on a mapping *)
HasKey(d, field) == d.fields[field].k # "missing"
Get(d, field) == IF HasKey(d, field) THEN d.fields[field] ELSE NoneV

Less(a, b) == a.v < b.v \/ (a.v = b.v /\ a.m < b.m)

(* variant: the bounds of a range are exclusive *)
LeqStrict(a, b) == Less(a, b)

Leq(a, b) == ~Less(b, a)

(* float(value): the outcome and, when it is "ok", the float *)
FloatOf(value) ==
    CASE value.k = "num"  -> [st |-> "ok", val |-> value]
      [] value.k = "nan"  -> [st |-> "ok", val |-> NaN]
      [] value.k = "inf"  -> [st |-> "ok", val |-> Inf]
      [] value.k = "huge" -> [st |-> "OverflowError", val |-> NoneV]
      [] value.k \in {"text", "empty"} -> [st |-> "ValueError", val |-> NoneV]
      [] OTHER -> [st |-> "TypeError", val |-> NoneV]

(* int(value): truncation toward zero; big marks an integer beyond every window *)
IntOf(value) ==
    CASE value.k = "num"  ->
            [st |-> "ok", big |-> FALSE,
             n |-> IF value.v < 0 /\ value.m > 0 THEN value.v + 1 ELSE value.v]
      [] value.k = "huge" -> [st |-> "ok", big |-> TRUE, n |-> 0]
      [] value.k = "inf"  -> [st |-> "OverflowError", big |-> FALSE, n |-> 0]
      [] value.k \in {"text", "empty", "nan"} -> [st |-> "ValueError", big |-> FALSE, n |-> 0]
      [] OTHER -> [st |-> "TypeError", big |-> FALSE, n |-> 0]

(* the float -0.0, which round() returns for a negative number that rounds to zero *)
NegZero == Val("negzero", 0, 0)

(* floor(log2(n)) for n >= 1 *)
RECURSIVE Log2(_)
Log2(n) == IF n < 2 THEN 0 ELSE 1 + Log2(n \div 2)

(* the least j >= from with b * 2^j >= 1000, for 1 <= b < 1000 *)
RECURSIVE ShiftUp(_, _)
ShiftUp(b, from) == IF b * (2 ^ from) >= 1000 THEN from ELSE ShiftUp(b, from + 1)

(* 2^e mod 1000 *)
RECURSIVE Pow2Mod(_)
Pow2Mod(e) == IF e = 0 THEN 1 ELSE (2 * Pow2Mod(e - 1)) % 1000

(* The double Python stores for the decimal a + b/1000 (a >= 0, 0 <= b < 1000) has *)
(* a 53-bit mantissa M = round((1000a + b) * 2^e / 1000), where e = 52 - k and      *)
(* 2^k <= a + b/1000 < 2^(k+1).  StoredResidue is ((1000a + b) * 2^e) mod 1000:      *)
(* 0 when the double is the decimal exactly, above 500 when the double lies above   *)
(* the decimal, below 500 when it lies below (500 itself cannot occur).             *)
StoredResidue(a, b) ==
    LET k == IF a >= 1 THEN Log2(a) ELSE IF b >= 1 THEN 0 - ShiftUp(b, 0) ELSE 0
    IN  (b * Pow2Mod(52 - k)) % 1000

(* round(val, ndigits) for ndigits in 1..3 on the double stored for val: the    *)
(* stored double is rounded correctly, so a decimal tie goes the way the double  *)
(* lies from the tie, and to the even digit only when the double is the tie     *)
Round(val, nd) ==
    LET neg == val.v < 0
        a == IF ~neg THEN val.v ELSE IF val.m = 0 THEN 0 - val.v ELSE 0 - val.v - 1
        b == IF ~neg \/ val.m = 0 THEN val.m ELSE 1000 - val.m
        u == IF nd = 3 THEN 1 ELSE IF nd = 2 THEN 10 ELSE 100
        q == b \div u
        r == b % u
        res == StoredResidue(a, b)
        up == 2 * r > u \/ (2 * r = u /\ (res > 500 \/ (res = 0 /\ q % 2 = 1)))
        mm == (IF up THEN q + 1 ELSE q) * u
        ra == IF mm = 1000 THEN a + 1 ELSE a
        rb == IF mm = 1000 THEN 0 ELSE mm
    IN  IF ~neg THEN Num(ra, rb)
        ELSE IF ra = 0 /\ rb = 0 THEN NegZero
        ELSE IF rb = 0 THEN Num(0 - ra, 0)
        ELSE Num(0 - ra - 1, 1000 - rb)

----------------------------------------------------------------------------
(* Field Validator *)

Absent == [st |-> "ok", val |-> NoneV]

(* the exceptions the except clause of validate_numeric_field catches *)
NumericCaught == {"ValueError", "TypeError"}

(* validate_numeric_field(value, field): st = "ok" with the float or None,  *)
(* or the exception that leaves the function                               *)
validate_numeric_field(value, field) ==
    IF value.k \in {"none", "empty"} THEN Absent
    ELSE LET c == FloatOf(value) IN
         IF c.st \in NumericCaught THEN Absent
         ELSE IF c.st # "ok" THEN [st |-> c.st, val |-> NoneV]
         ELSE IF c.val.k # "num" THEN Absent
         ELSE IF field = "confidence"
                 /\ ~(Leq(Num(ConfidenceMin, 0), c.val) /\ Leq(c.val, Num(ConfidenceMax, 0)))
              THEN Absent
         ELSE IF field = "pupilD"
                 /\ ~(Leq(Num(PupilMin, 0), c.val) /\ Leq(c.val, Num(PupilMax, 0)))
              THEN Absent
         ELSE [st |-> "ok", val |-> c.val]

NoTimestamp == [has |-> FALSE, n |-> 0]

(* the exceptions the except clause of validate_timestamp catches *)
TimestampCaught == {"ValueError", "TypeError"}

(* the sequence check of validate_timestamp: which warning an accepted ts logs *)
OutOfSequence(ts, last) == last.has /\ ts < last.n
LargeGap(ts, last) == last.has /\ ~(ts < last.n) /\ ts - last.n > GapThresholdMs

(* variant: a timestamp below the last accepted one is rejected *)
validate_timestamp_ordered(timestamp, now, last) ==
    LET c == IntOf(timestamp)
        reject == [st |-> "ok", has |-> FALSE, n |-> 0, last |-> last,
                   oos |-> FALSE, gap |-> FALSE]
    IN  IF c.st \in TimestampCaught THEN reject
        ELSE IF c.st # "ok" THEN [reject EXCEPT !.st = c.st]
        ELSE IF ~c.big /\ c.n < now - HourMs THEN reject
        ELSE IF c.big \/ c.n > now + FutureToleranceMs THEN reject
        ELSE IF OutOfSequence(c.n, last) THEN [reject EXCEPT !.oos = TRUE]
        ELSE [st |-> "ok", has |-> TRUE, n |-> c.n,
              last |-> [has |-> TRUE, n |-> c.n],
              oos |-> FALSE,
              gap |-> LargeGap(c.n, last)]

(* variant: last_timestamp only ever grows *)
validate_timestamp_highest(timestamp, now, last) ==
    LET c == IntOf(timestamp)
        reject == [st |-> "ok", has |-> FALSE, n |-> 0, last |-> last,
                   oos |-> FALSE, gap |-> FALSE]
    IN  IF c.st \in TimestampCaught THEN reject
        ELSE IF c.st # "ok" THEN [reject EXCEPT !.st = c.st]
        ELSE IF ~c.big /\ c.n < now - HourMs THEN reject
        ELSE IF c.big \/ c.n > now + FutureToleranceMs THEN reject
        ELSE [st |-> "ok", has |-> TRUE, n |-> c.n,
              last |-> IF OutOfSequence(c.n, last) THEN last ELSE [has |-> TRUE, n |-> c.n],
              oos |-> OutOfSequence(c.n, last),
              gap |-> LargeGap(c.n, last)]

(* validate_timestamp(timestamp) at clock reading now with self.last_timestamp = last: *)
(* the returned value (has, n), the new last_timestamp and the warnings logged        *)
validate_timestamp(timestamp, now, last) ==
    LET c == IntOf(timestamp)
        reject == [st |-> "ok", has |-> FALSE, n |-> 0, last |-> last,
                   oos |-> FALSE, gap |-> FALSE]
    IN  IF c.st \in TimestampCaught THEN reject
        ELSE IF c.st # "ok" THEN [reject EXCEPT !.st = c.st]
        ELSE IF ~c.big /\ c.n < now - HourMs THEN reject
        ELSE IF c.big \/ c.n > now + FutureToleranceMs THEN reject
        ELSE [st |-> "ok", has |-> TRUE, n |-> c.n,
              last |-> [has |-> TRUE, n |-> c.n],
              oos |-> OutOfSequence(c.n, last),
              gap |-> LargeGap(c.n, last)]

(* format_24h_time(timestamp): local time to the second *)
format_24h_time(timestamp) == Val("time", timestamp \div 1000, 0)

----------------------------------------------------------------------------
(* Inputs *)

NoFields == [f \in Keys |-> Missing]
Mapping(fs) == [mapping |-> TRUE, fields |-> fs]

TBase == ClockStart - 2000

(* {timestamp: T, x: 500, y: 500, confidence: 0.9} *)
RecA == Mapping([NoFields EXCEPT !["timestamp"] = Num(TBase, 0), !["x"] = Num(500, 0),
                                 !["y"] = Num(500, 0), !["confidence"] = Num(0, 900)])
(* {timestamp: T+16, x: 501, y: 500, confidence: 1.5} *)
RecB == Mapping([NoFields EXCEPT !["timestamp"] = Num(TBase + SampleInterval, 0),
                                 !["x"] = Num(501, 0), !["y"] = Num(500, 0),
                                 !["confidence"] = Num(1, 500)])
(* {x: 502, y: 500} *)
RecC == Mapping([NoFields EXCEPT !["x"] = Num(502, 0), !["y"] = Num(500, 0)])
(* a full sample, timestamp given as a float; confidence 0.015, pupilD 2.15 and *)
(* HeadX 0.05 are decimal ties whose doubles lie off the tie, HeadPitch 0.25 is  *)
(* a tie that is exact in binary, HeadZ -0.04 rounds to -0.0                     *)
RecFull == Mapping([f \in Keys |->
    CASE f = "timestamp" -> Num(TBase + 2 * SampleInterval, 700)
      [] f = "x" -> Num(512, 345)   [] f = "y" -> Num(640, 120)
      [] f = "confidence" -> Num(0, 15) [] f = "pupilD" -> Num(2, 150)
      [] f = "docX" -> Num(512, 345) [] f = "docY" -> Num(640, 120)
      [] f = "HeadX" -> Num(0, 50) [] f = "HeadY" -> Num(-8, 40)
      [] f = "HeadZ" -> Num(-1, 960) [] f = "HeadYaw" -> NoneV
      [] f = "HeadPitch" -> Num(0, 250) [] f = "HeadRoll" -> Text])
(* x: None, y: "" *)
RecNullXY == Mapping([NoFields EXCEPT !["timestamp"] = Num(TBase, 0), !["x"] = NoneV,
                                      !["y"] = EmptyStr])
(* confidence: 10**400 *)
RecHugeConf == Mapping([NoFields EXCEPT !["timestamp"] = Num(TBase, 0), !["x"] = Num(500, 0),
                                        !["y"] = Num(500, 0), !["confidence"] = Huge])
(* a sample that is not a mapping (None, 5) *)
NotMapping == [mapping |-> FALSE, fields |-> NoFields]
(* timestamp: float("inf") *)
RecInfTs == Mapping([NoFields EXCEPT !["timestamp"] = Inf, !["x"] = Num(500, 0),
                                     !["y"] = Num(500, 0)])
(* exactly one hour before the earlier clock reading *)
RecOld == Mapping([NoFields EXCEPT !["timestamp"] = Num(ClockStart - HourMs, 0),
                                   !["x"] = Num(500, 0), !["y"] = Num(500, 0)])
(* T + 16 + 1000: exactly the gap threshold after RecB, more than it after RecA *)
RecLate == Mapping([NoFields EXCEPT !["timestamp"] = Num(TBase + SampleInterval + GapThresholdMs, 0),
                                    !["x"] = Num(500, 0), !["y"] = Num(500, 0)])
(* no x key *)
RecNoX == Mapping([NoFields EXCEPT !["timestamp"] = Num(TBase, 0), !["y"] = Num(500, 0)])
(* no y key *)
RecNoY == Mapping([NoFields EXCEPT !["timestamp"] = Num(TBase, 0), !["x"] = Num(500, 0)])

(* the input of the end-to-end scenario *)
EndToEndInput == << RecA, RecB, RecC >>

Samples == { RecA, RecB, RecC, RecFull, RecNullXY, RecHugeConf, NotMapping,
             RecInfTs, RecOld, RecLate, RecNoX, RecNoY }

----------------------------------------------------------------------------
(* Record validation *)

RecordKeys == Keys \cup {"time_24h"}
NoRecord == [f \in RecordKeys |-> NoneV]

NumericFieldSet == { numeric_fields[i] : i \in 1..Len(numeric_fields) }

(* index of the first numeric field of d whose validation raises, 0 when none does *)
FirstRaising(d) ==
    LET bad == { i \in 1..Len(numeric_fields) :
                   validate_numeric_field(Get(d, numeric_fields[i]), numeric_fields[i]).st # "ok" }
    IN  IF bad = {} THEN 0 ELSE CHOOSE i \in bad : \A j \in bad : i <= j

(* the loop `for field in self.numeric_fields` of validate_data_point on sample d: *)
(* the exception that ends it ("ok" when none does) and the validated fields       *)
NumericLoop(d) ==
    LET r == FirstRaising(d) IN
    [ st   |-> IF r = 0 THEN "ok"
               ELSE validate_numeric_field(Get(d, numeric_fields[r]), numeric_fields[r]).st,
      vals |-> [f \in NumericFieldSet |-> validate_numeric_field(Get(d, f), f).val] ]

(* NumericLoop, which reads nothing but the sample, tabulated over the inputs *)
NumericResults == [d \in Samples |-> NumericLoop(d)]

(* the try block of validate_data_point: the outcome (st), the validated record *)
(* (has, rec), the timestamp validate_timestamp accepted (ts), the new          *)
(* last_timestamp and the warnings logged                                       *)
ValidateBody(d, now, last) ==
    LET none == [st |-> "ok", has |-> FALSE, rec |-> NoRecord, ts |-> NoTimestamp,
                 last |-> last, oos |-> FALSE, gap |-> FALSE]
    IN  IF ~d.mapping THEN [none EXCEPT !.st = "TypeError"]
        ELSE IF \E i \in 1..Len(required_fields) : ~HasKey(d, required_fields[i]) THEN none
        ELSE LET t == validate_timestamp(Get(d, "timestamp"), now, last) IN
             LET logged == [none EXCEPT !.last = t.last, !.oos = t.oos, !.gap = t.gap] IN
             IF t.st # "ok" THEN [logged EXCEPT !.st = t.st]
             ELSE IF ~t.has THEN logged
             ELSE LET seen == [none EXCEPT !.ts = [has |-> TRUE, n |-> t.n], !.last = t.last,
                                      !.oos = t.oos, !.gap = t.gap]
                      nr == NumericResults[d]
                  IN  IF nr.st # "ok"
                      THEN [seen EXCEPT !.st = nr.st]
                      ELSE [seen EXCEPT !.has = TRUE, !.rec =
                              [f \in RecordKeys |->
                                 IF f = "timestamp" THEN Val("int", t.n, 0)
                                 ELSE IF f = "time_24h" THEN format_24h_time(t.n)
                                 ELSE nr.vals[f]]]

(* variant: no except clause, the exception leaves validate_data_point *)
PropagateException(r) == r

(* the except Exception clause of validate_data_point: every exception becomes None *)
AbsorbException(r) ==
    IF r.st # "ok" THEN [r EXCEPT !.st = "ok", !.has = FALSE, !.rec = NoRecord] ELSE r

validate_data_point(d, now, last) == AbsorbException(ValidateBody(d, now, last))

----------------------------------------------------------------------------
(* Session Exporter *)

Min(a, b) == IF a < b THEN a ELSE b

EmptyCell == EmptyStr

(* variant: an absent value is written as 0 *)
CellZero(value, nd) == IF value.k = "none" THEN Num(0, 0) ELSE Round(value, nd)

(* round(value, n) if value is not None else "" *)
Cell(value, nd) == IF value.k = "none" THEN EmptyCell ELSE Round(value, nd)

(* decimals of each numeric column in _flush_buffer *)
Precision(field) ==
    IF field \in {"x", "y", "docX", "docY"} THEN 3
    ELSE IF field = "confidence" THEN 2
    ELSE 1

(* the row _flush_buffer writes for one validated record *)
Row(rec) ==
    << rec["timestamp"], Val("time", rec["timestamp"].v \div 1000, 0) >>
    \o [i \in 1..Len(numeric_fields) |->
          Cell(rec[numeric_fields[i]], Precision(numeric_fields[i]))]

(* variant: the buffer is not emptied after its rows are written *)
FlushBufferKeep(buf, out, failAt) ==
    LET k == Min(failAt, Len(buf)) IN
    [ raised |-> k < Len(buf),
      wrote  |-> k,
      buffer |-> buf,
      out    |-> [out EXCEPT !.rows = @ \o [i \in 1..k |-> Row(buf[i])]] ]

(* _flush_buffer(writer) on buffer buf and sink out, where the writer raises  *)
(* on row failAt + 1 (failAt = Len(buf): every write succeeds)                *)
FlushBuffer(buf, out, failAt) ==
    LET k == Min(failAt, Len(buf)) IN
    [ raised |-> k < Len(buf),
      wrote  |-> k,
      buffer |-> IF k < Len(buf) THEN buf ELSE << >>,
      out    |-> [out EXCEPT !.rows = @ \o [i \in 1..k |-> Row(buf[i])]] ]

(* variant: flush only once the buffer exceeds the capacity *)
BufferFullStrict(buf, size) == Len(buf) > size

(* `len(self.data_buffer) >= self.buffer_size` *)
BufferFull(buf, size) == Len(buf) >= size

(* variant: every record is counted as valid *)
TallyValid(stats, valid) == [stats EXCEPT !.valid_points = @ + 1]

(* the counter export_session increments on the validator's verdict *)
Tally(stats, valid) ==
    IF valid THEN [stats EXCEPT !.valid_points = @ + 1]
    ELSE [stats EXCEPT !.invalid_points = @ + 1]

(* _log_performance_metrics: TRUE when one of its divisions raises ZeroDivisionError *)
LogPerformanceMetricsRaises(stats) ==
    stats.total_points = 0 \/ stats.processing_time = 0

ZeroStats == [total_points |-> 0, valid_points |-> 0, invalid_points |-> 0,
              processing_time |-> 0]

NoResult == [st |-> "none", header |-> FALSE, rows |-> << >>]
EmptyResult == [st |-> "empty", header |-> FALSE, rows |-> << >>]
Artifact(out) == [st |-> "artifact", header |-> out.header, rows |-> out.rows]

NoFlush == [calls |-> 0, last |-> "none", wrote |-> 0, failed |-> FALSE, ever |-> FALSE]
(* the export_session call has returned *)
Returned == pc \in {"done", "failed"}

NoStep == [kind |-> "none", now |-> 0, oos |-> FALSE, gap |-> FALSE]
NoWarnings == [oos |-> 0, gap |-> 0]
NoFirst == [st |-> "none", result |-> NoResult, verdicts |-> << >>]
NoCall == [fn |-> "none", sample |-> NotMapping,
           value |-> NoneV, field |-> "", now |-> 0,
           last |-> NoTimestamp, st |-> "ok", ret |-> NoneV, after |-> NoTimestamp]

----------------------------------------------------------------------------
(* The exporter as a state machine *)

(* CSVExporter.__init__ *)
Constructed ==
    /\ buffer_size \in 1..MaxBufferSize
    /\ data_buffer = << >>
    /\ performance_stats = ZeroStats
    /\ last_timestamp = NoTimestamp
    /\ output = [header |-> FALSE, rows |-> << >>]
    /\ result = NoResult
    /\ pc = "idle"
    /\ data = NotMapping
    /\ accepted = << >>
    /\ tsHist = << >>
    /\ warnings = NoWarnings
    /\ flush = NoFlush
    /\ step = NoStep
    /\ e2e = -1
    /\ exports = 0
    /\ consumed = 0

Init ==
    /\ Constructed
    /\ session = << >>
    /\ idx = 0
    /\ verdicts = << >>
    /\ first = NoFirst
    /\ call = NoCall

(* export_session up to the loop: new sink, header row, statistics reset *)
Start ==
    /\ output' = [header |-> TRUE, rows |-> << >>]
    /\ performance_stats' = ZeroStats
    /\ pc' = "streaming"
    /\ result' = NoResult
    /\ accepted' = << >>
    /\ tsHist' = << >>
    /\ warnings' = NoWarnings
    /\ flush' = [NoFlush EXCEPT !.ever = flush.ever]
    /\ step' = NoStep
    /\ e2e' = 0
    /\ exports' = exports + 1
    /\ data' = NotMapping
    /\ UNCHANGED << buffer_size, data_buffer, last_timestamp, consumed >>

StartExport ==
    /\ pc \in {"idle", "done", "failed"}
    /\ exports < MaxExports
    /\ Start
    /\ UNCHANGED probes

(* one iteration of the loop of export_session on sample d at clock reading now; *)
(* the writer of a flush raises on row failAt + 1 (failAt = length: no failure)   *)
Consume(d, now) ==
    \E r \in {validate_data_point(d, now, last_timestamp)} :
    LET counted == [performance_stats EXCEPT !.total_points = @ + 1]
        buf == Append(data_buffer, r.rec)
    IN
    /\ data' = d
    /\ consumed' = consumed + 1
    /\ e2e' = IF e2e >= 0 /\ e2e < Len(EndToEndInput) /\ d = EndToEndInput[e2e + 1]
              THEN e2e + 1 ELSE -1
    /\ last_timestamp' = r.last
    /\ tsHist' = IF r.ts.has THEN Append(tsHist, r.ts.n) ELSE tsHist
    /\ warnings' = [oos |-> warnings.oos + (IF r.oos THEN 1 ELSE 0),
                    gap |-> warnings.gap + (IF r.gap THEN 1 ELSE 0)]
    /\ UNCHANGED << buffer_size, exports >>
    /\ IF r.st # "ok"
       THEN \* an exception of the validator reaches the except clause of export_session
            /\ performance_stats' = counted
            /\ pc' = "failed"
            /\ result' = EmptyResult
            /\ step' = [kind |-> "raised", now |-> now, oos |-> r.oos, gap |-> r.gap]
            /\ flush' = [flush EXCEPT !.last = "none", !.wrote = 0]
            /\ UNCHANGED << data_buffer, output, accepted >>
       ELSE IF r.has
       THEN /\ accepted' = Append(accepted, r.rec)
            /\ step' = [kind |-> "accepted", now |-> now, oos |-> r.oos, gap |-> r.gap]
            /\ performance_stats' = Tally(counted, TRUE)
            /\ IF BufferFull(buf, buffer_size)
               THEN \E failAt \in 0..Len(buf) :
                    \E f \in {FlushBuffer(buf, output, failAt)} :
                      /\ data_buffer' = f.buffer
                      /\ output' = f.out
                      /\ flush' = [calls |-> flush.calls + 1,
                                   last |-> IF f.raised THEN "raised" ELSE "ok",
                                   wrote |-> f.wrote,
                                   failed |-> f.raised,
                                   ever |-> flush.ever \/ f.raised]
                      /\ pc' = IF f.raised THEN "failed" ELSE "streaming"
                      /\ result' = IF f.raised THEN EmptyResult ELSE result
               ELSE /\ data_buffer' = buf
                    /\ flush' = [flush EXCEPT !.last = "none", !.wrote = 0]
                    /\ UNCHANGED << output, pc, result >>
       ELSE /\ performance_stats' = Tally(counted, FALSE)
            /\ step' = [kind |-> "rejected", now |-> now, oos |-> r.oos, gap |-> r.gap]
            /\ flush' = [flush EXCEPT !.last = "none", !.wrote = 0]
            /\ UNCHANGED << data_buffer, output, accepted, pc, result >>

ConsumeRecord ==
    /\ pc = "streaming"
    /\ consumed < MaxRecords
    /\ \E d \in Samples, now \in ClockReadings : Consume(d, now)
    /\ UNCHANGED probes

(* the end of export_session once the input is exhausted: flush of the rest, *)
(* processing_time, _log_performance_metrics, return of the artifact         *)
Finish(failAt, elapsed) ==
    \E f \in {FlushBuffer(data_buffer, output, failAt)} :
    LET timed == [performance_stats EXCEPT !.processing_time = elapsed] IN
    /\ step' = NoStep
    /\ UNCHANGED << buffer_size, last_timestamp, data, accepted, tsHist,
                    warnings, e2e, exports, consumed >>
    /\ IF data_buffer # << >>
       THEN /\ data_buffer' = f.buffer
            /\ output' = f.out
            /\ flush' = [calls |-> flush.calls + 1,
                         last |-> IF f.raised THEN "raised" ELSE "ok",
                         wrote |-> f.wrote,
                         failed |-> f.raised,
                         ever |-> flush.ever \/ f.raised]
       ELSE /\ flush' = [flush EXCEPT !.last = "none", !.wrote = 0]
            /\ UNCHANGED << data_buffer, output >>
    /\ IF data_buffer # << >> /\ f.raised
       THEN /\ pc' = "failed"
            /\ result' = EmptyResult
            /\ UNCHANGED performance_stats
       ELSE /\ performance_stats' = timed
            /\ IF LogPerformanceMetricsRaises(timed)
               THEN pc' = "failed" /\ result' = EmptyResult
               ELSE pc' = "done" /\ result' = Artifact(output')

FinishExport ==
    /\ pc = "streaming"
    /\ \E failAt \in 0..Len(data_buffer), elapsed \in ElapsedReadings : Finish(failAt, elapsed)
    /\ UNCHANGED probes

Next == StartExport \/ ConsumeRecord \/ FinishExport

Spec == Init /\ [][Next]_vars

----------------------------------------------------------------------------
(* One session exported twice, each time by a newly made exporter *)

(* the samples validate_data_point accepts on a new exporter when the clock reads *)
(* ClockStart                                                                     *)
ValidSamples == { d \in Samples : validate_data_point(d, ClockStart, NoTimestamp).has }

(* the sessions: 1..MaxSession valid samples *)
Sessions == UNION { [1..n -> ValidSamples] : n \in 1..MaxSession }

TwiceInit ==
    /\ Constructed
    /\ session \in Sessions
    /\ idx = 0
    /\ verdicts = << >>
    /\ first = NoFirst
    /\ call = NoCall

(* exporter.export_session({"gaze_data": session}) up to the loop *)
BeginExport ==
    /\ pc = "idle"
    /\ Start
    /\ idx' = 0
    /\ verdicts' = << >>
    /\ UNCHANGED << session, first, call >>

(* the loop iteration on the next sample of the session *)
ConsumeNext ==
    /\ pc = "streaming"
    /\ idx < Len(session)
    /\ \E now \in ClockReadings : Consume(session[idx + 1], now)
    /\ idx' = idx + 1
    /\ verdicts' = Append(verdicts, step'.kind)
    /\ UNCHANGED << session, first, call >>

(* the end of the export once the session is exhausted *)
EndExport ==
    /\ pc = "streaming"
    /\ idx = Len(session)
    /\ \E failAt \in 0..Len(data_buffer), elapsed \in ElapsedReadings : Finish(failAt, elapsed)
    /\ UNCHANGED probes

(* CSVExporter() once more, of the same configuration, after the first export returned *)
NewExporter ==
    /\ Returned
    /\ exports = 1
    /\ first = NoFirst
    /\ first' = [st |-> "returned", result |-> result, verdicts |-> verdicts]
    /\ data_buffer' = << >>
    /\ performance_stats' = ZeroStats
    /\ last_timestamp' = NoTimestamp
    /\ pc' = "idle"
    /\ flush' = NoFlush
    /\ UNCHANGED << buffer_size, output, result, data, accepted, tsHist, warnings,
                    step, e2e, exports, consumed, session, idx, verdicts, call >>

TwiceNext == BeginExport \/ ConsumeNext \/ EndExport \/ NewExporter

TwiceSpec == TwiceInit /\ [][TwiceNext]_vars

----------------------------------------------------------------------------
(* The field validators called directly on an exporter *)

(* raw values of a numeric field: the kinds of value, the bounds of the two *)
(* ranges, and the values one unit and one thousandth outside them          *)
RawValues ==
    { NoneV, EmptyStr, Text, NaN, Inf, Huge, ListV }
    \cup { Num(v, 0) : v \in { ConfidenceMin - 1, ConfidenceMin, ConfidenceMax, ConfidenceMax + 1,
                              PupilMin - 1, PupilMin, PupilMax, PupilMax + 1, 512 } }
    \cup { Num(ConfidenceMin - 1, 999), Num(ConfidenceMin, 500), Num(ConfidenceMax, 1),
           Num(PupilMin - 1, 999), Num(PupilMax, 1) }

(* raw values of a timestamp: the kinds of value, and numbers around the two *)
(* ends of the window of the clock readings                                  *)
RawTimestamps ==
    { NoneV, EmptyStr, Text, NaN, Inf, Huge, ListV }
    \cup { Num(ClockStart + d, 0) : d \in { 0 - HourMs - 1, 0 - HourMs, 1 - HourMs, 0 - 2000,
                                           0 - 2000 + SampleInterval, 0,
                                           FutureToleranceMs, FutureToleranceMs + 1,
                                           FutureToleranceMs + 2 } }
    \cup { Num(ClockStart - 2000, 700), Num(ClockStart + FutureToleranceMs + 1, 300) }

ValidatorInit ==
    /\ Constructed
    /\ session = << >>
    /\ idx = 0
    /\ verdicts = << >>
    /\ first = NoFirst
    /\ call = NoCall

(* exporter.validate_numeric_field(value, field) *)
CallValidateNumericField ==
    \E value \in RawValues, field \in NumericFieldSet :
    \E r \in {validate_numeric_field(value, field)} :
        /\ call' = [fn |-> "numeric", sample |-> NotMapping, value |-> value, field |-> field, now |-> 0,
                    last |-> last_timestamp, st |-> r.st, ret |-> r.val,
                    after |-> last_timestamp]
        /\ UNCHANGED << buffer_size, data_buffer, performance_stats, last_timestamp,
                        output, result, pc, data, accepted, tsHist, warnings, flush,
                        step, e2e, exports, consumed, session, idx, verdicts, first >>

(* exporter.validate_timestamp(value) at clock reading now *)
CallValidateTimestamp ==
    \E value \in RawTimestamps, now \in ClockReadings :
    \E t \in {validate_timestamp(value, now, last_timestamp)} :
        /\ call' = [fn |-> "timestamp", sample |-> NotMapping, value |-> value, field |-> "timestamp", now |-> now,
                    last |-> last_timestamp, st |-> t.st,
                    ret |-> IF t.has THEN Val("int", t.n, 0) ELSE NoneV,
                    after |-> t.last]
        /\ last_timestamp' = t.last
        /\ UNCHANGED << buffer_size, data_buffer, performance_stats,
                        output, result, pc, data, accepted, tsHist, warnings, flush,
                        step, e2e, exports, consumed, session, idx, verdicts, first >>

(* exporter.validate_data_point(sample) at clock reading now; call.value is the *)
(* sample's timestamp and call.ret the timestamp of the validated record        *)
CallValidateDataPoint ==
    \E d \in Samples, now \in ClockReadings :
    \E r \in {validate_data_point(d, now, last_timestamp)} :
        /\ call' = [fn |-> "record", sample |-> d, value |-> d.fields["timestamp"], field |-> "", now |-> now,
                    last |-> last_timestamp, st |-> r.st,
                    ret |-> IF r.has THEN r.rec["timestamp"] ELSE NoneV,
                    after |-> r.last]
        /\ last_timestamp' = r.last
        /\ UNCHANGED << buffer_size, data_buffer, performance_stats,
                        output, result, pc, data, accepted, tsHist, warnings, flush,
                        step, e2e, exports, consumed, session, idx, verdicts, first >>

ValidatorNext == CallValidateNumericField \/ CallValidateTimestamp \/ CallValidateDataPoint

ValidatorSpec == ValidatorInit /\ [][ValidatorNext]_vars

----------------------------------------------------------------------------
(* Properties *)

Ceil(m, n) == (m + n - 1) \div n

(* the artifact made of the header and one row per record accepted in this export *)
ExpectedArtifact ==
    [st |-> "artifact", header |-> TRUE,
     rows |-> [i \in 1..Len(accepted) |-> Row(accepted[i])]]

(* C1: when an export_session call on a fresh exporter has returned and no sink  *)
(* write failed, it has made exactly ceil(M / N) flushes for M accepted records   *)
(* and capacity N, and has written exactly M data rows.                           *)
BufferBoundary ==
    (Returned /\ exports = 1 /\ ~flush.failed) =>
        /\ flush.calls = Ceil(performance_stats.valid_points, buffer_size)
        /\ Len(output.rows) = performance_stats.valid_points

BufferBoundaryWitness ==
    /\ pc = "done" /\ exports = 1
    /\ buffer_size = 2
    /\ performance_stats.valid_points = 3
    /\ flush.calls = 2
    /\ Len(output.rows) = 3

(* C2: every export in which no flush fails returns the artifact of the header  *)
(* and one row per accepted record, never the empty failure result.             *)
OnlyFlushFailureAborts ==
    (Returned /\ ~flush.failed) => (pc = "done" /\ result = ExpectedArtifact)

(* C3: every validated record holds a validated timestamp, x and y. *)
ValidatedRecordInvariant ==
    \A i \in 1..Len(accepted) :
        /\ accepted[i]["timestamp"].k = "int"
        /\ accepted[i]["x"].k = "num"
        /\ accepted[i]["y"].k = "num"

(* the rows of the end-to-end scenario's first and second record *)
EndToEndRowA ==
    << Val("int", TBase, 0), Val("time", TBase \div 1000, 0),
       Num(500, 0), Num(500, 0), Num(0, 900) >> \o [i \in 1..9 |-> EmptyCell]
EndToEndRowB ==
    << Val("int", TBase + SampleInterval, 0), Val("time", (TBase + SampleInterval) \div 1000, 0),
       Num(501, 0), Num(500, 0) >> \o [i \in 1..10 |-> EmptyCell]

(* the export has consumed exactly the three records of the scenario and returned *)
EndToEndDone == pc = "done" /\ e2e = 3 /\ performance_stats.total_points = 3 /\ exports = 1

(* C4 as stated: the scenario yields the header and one data row (the first    *)
(* record) and the statistics total=3, valid=1, invalid=2.                     *)
EndToEndAsStated ==
    EndToEndDone =>
        /\ result = [st |-> "artifact", header |-> TRUE, rows |-> << EndToEndRowA >>]
        /\ performance_stats.valid_points = 1
        /\ performance_stats.invalid_points = 2

(* C4 amended: on a fresh exporter the scenario, once the export has completed, *)
(* yields the header and two data rows, the first and the second record, the    *)
(* second with an empty confidence cell, and the statistics total=3, valid=2,   *)
(* invalid=1.                                                                   *)
EndToEnd ==
    EndToEndDone =>
        /\ result = [st |-> "artifact", header |-> TRUE,
                     rows |-> << EndToEndRowA, EndToEndRowB >>]
        /\ performance_stats.total_points = 3
        /\ performance_stats.valid_points = 2
        /\ performance_stats.invalid_points = 1

EndToEndWitness == EndToEndDone /\ Len(result.rows) = 2 /\ data = RecC

(* C5: when an export starts (here: on an exporter no flush of which ever      *)
(* raised), the counters are zero and no last timestamp is stored, so the first *)
(* timestamp accepted in an export logs no out-of-sequence and no gap warning.  *)
InitReset ==
    ~flush.ever =>
        /\ (pc = "streaming" /\ performance_stats.total_points = 0) =>
               (performance_stats = ZeroStats /\ ~last_timestamp.has)
        /\ Len(tsHist) = 1 => warnings = NoWarnings

(* C6: a flush that raised has written no row, and a flush that returned       *)
(* normally has left the buffer empty.                                          *)
FlushAtomic ==
    /\ flush.last = "raised" => flush.wrote = 0
    /\ flush.last = "ok" => data_buffer = << >>

RequiredKeys == {"timestamp", "x", "y"}

LacksRequiredKey(d) == d.mapping /\ \E f \in RequiredKeys : d.fields[f].k = "missing"

ConsumedOne == pc = "streaming" /\ consumed' = consumed + 1

(* what a rejected record does: it is counted as invalid and nothing else of the *)
(* export changes                                                                *)
OnlyCountedInvalid ==
    /\ step'.kind = "rejected"
    /\ performance_stats' = [performance_stats EXCEPT !.total_points = @ + 1,
                                                      !.invalid_points = @ + 1]
    /\ data_buffer' = data_buffer
    /\ output' = output
    /\ accepted' = accepted
    /\ result' = result
    /\ pc' = "streaming"

(* C7: a sample that lacks the key timestamp, x or y is rejected: no record is  *)
(* buffered or written for it, invalid_points grows by one, and the export goes  *)
(* on.                                                                           *)
MissingKeyRejected ==
    [][ (ConsumedOne /\ LacksRequiredKey(data')) => OnlyCountedInvalid ]_vars

MissingKeyRejectedWitness ==
    /\ pc = "done"
    /\ data = RecNoY
    /\ performance_stats.invalid_points = 2
    /\ performance_stats.valid_points = 1
    /\ Len(result.rows) = 1

(* a number that is a timestamp inside the window of clock reading now *)
InWindow(value, now) ==
    /\ value.k = "num"
    /\ value.v >= now - HourMs
    /\ value.v <= now + FutureToleranceMs

(* timestamp, x and y are present and valid at clock reading now *)
RequiredValid(d, now) ==
    /\ d.mapping
    /\ InWindow(d.fields["timestamp"], now)
    /\ d.fields["x"].k = "num"
    /\ d.fields["y"].k = "num"

(* C8: a sample whose timestamp, x and y are valid is accepted whatever its     *)
(* optional fields hold.                                                        *)
PerFieldIndependence ==
    [][ (ConsumedOne /\ RequiredValid(data', step'.now)) => step'.kind = "accepted" ]_vars

(* the ways of the claim in which a record fails validation at clock reading now *)
Malformed(d, now) ==
    \/ ~d.mapping
    \/ LacksRequiredKey(d)
    \/ d.fields["timestamp"].k \in {"none", "empty", "text", "nan", "inf", "list", "huge"}
    \/ /\ d.fields["timestamp"].k = "num"
       /\ \/ d.fields["timestamp"].v < now - HourMs
          \/ d.fields["timestamp"].v > now + FutureToleranceMs
    \/ \E f \in NumericFieldSet : d.fields[f].k = "huge"

(* C9: a record that fails validation is only counted as invalid; the export is *)
(* not aborted and goes on with the next record.                                *)
NoRecordAborts ==
    [][ (ConsumedOne /\ Malformed(data', step'.now)) => OnlyCountedInvalid ]_vars

NoRecordAbortsWitness ==
    /\ pc = "done"
    /\ performance_stats.invalid_points = 2
    /\ performance_stats.valid_points = 1
    /\ data = RecA
    /\ result = ExpectedArtifact

(* each timestamp exceeds its predecessor by exactly the sampling interval *)
ExactSteps(ts) == \A i \in 2..Len(ts) : ts[i] = ts[i - 1] + SampleInterval

Without(ts, i) == [j \in 1..(Len(ts) - 1) |-> IF j < i THEN ts[j] ELSE ts[j + 1]]

(* an exact-interval sequence of at least two timestamps into which one timestamp *)
(* smaller than its predecessor has been inserted                                 *)
OneInserted(ts) ==
    /\ Len(ts) >= 3
    /\ \E i \in 2..Len(ts) : ts[i] < ts[i - 1] /\ ExactSteps(Without(ts, i))

(* a sample all of whose values are numbers or absent *)
PlainSample(d) ==
    /\ d.mapping
    /\ \A f \in RequiredKeys : d.fields[f].k = "num"
    /\ \A f \in NumericFieldSet : d.fields[f].k \in {"num", "none", "missing"}

Last(q) == q[Len(q)]

(* C10: in an export on fresh session state, accepted timestamps that advance by *)
(* exactly the sampling interval log no warning; with one smaller timestamp      *)
(* inserted exactly one out-of-sequence warning is logged; and the record that    *)
(* logged it is accepted and is in the buffer or written.                         *)
MonotonicGap ==
    exports = 1 =>
        /\ (ExactSteps(tsHist) => warnings = NoWarnings)
        /\ (OneInserted(tsHist) => warnings.oos = 1)
        /\ (step.oos /\ PlainSample(data)) =>
              /\ step.kind = "accepted"
              /\ Last(accepted)["timestamp"].v = Last(tsHist)
              /\ \/ (data_buffer # << >> /\ Last(data_buffer) = Last(accepted))
                 \/ (output.rows # << >> /\ Last(output.rows) = Row(Last(accepted)))

MonotonicGapWitness ==
    /\ exports = 1
    /\ pc = "done"
    /\ tsHist = << TBase, TBase + SampleInterval, TBase >>
    /\ OneInserted(tsHist)
    /\ warnings = [oos |-> 1, gap |-> 0]
    /\ Len(result.rows) = 3

(* C11: a valid session exported twice, each time by a newly made exporter and   *)
(* without a failing sink, gives the same artifact and the same verdict for      *)
(* every record both times.                                                      *)
Idempotence ==
    (first.st = "returned" /\ Returned /\ exports = 2 /\ ~flush.ever) =>
        /\ result = first.result
        /\ verdicts = first.verdicts

(* C12: validate_numeric_field returns a finite number or None for every raw   *)
(* value and every field; no exception leaves it.                              *)
NumericNeverThrows ==
    call.fn = "numeric" => (call.st = "ok" /\ call.ret.k \in {"num", "none"})

RangeFields == {"confidence", "pupilD"}

(* the value v + m/1000 lies in [lo, hi] *)
Within(value, lo, hi) ==
    /\ value.v >= lo
    /\ value.v < hi \/ (value.v = hi /\ value.m = 0)

(* C13: validate_numeric_field returns a confidence exactly when it lies in    *)
(* [0, 1] and a pupil diameter exactly when it lies in [2, 8], both bounds      *)
(* included, and None otherwise; it returns every finite value of another field. *)
InclusiveBounds ==
    (call.fn = "numeric" /\ call.value.k = "num") =>
        /\ call.st = "ok"
        /\ call.ret \in {call.value, NoneV}
        /\ call.field = "confidence" =>
              (call.ret = call.value <=> Within(call.value, ConfidenceMin, ConfidenceMax))
        /\ call.field = "pupilD" =>
              (call.ret = call.value <=> Within(call.value, PupilMin, PupilMax))
        /\ call.field \notin RangeFields => call.ret = call.value

InclusiveBoundsWitness ==
    /\ call.fn = "numeric"
    /\ call.field = "pupilD"
    /\ call.value = Num(PupilMax, 0)
    /\ call.ret = Num(PupilMax, 0)

(* the rows _flush_buffer writes for a sequence of validated records *)
RowsOf(recs) == [i \in 1..Len(recs) |-> Row(recs[i])]

(* C14: every step keeps total_points = valid_points + invalid_points; a loop   *)
(* iteration adds one to total_points, which in the first export is the number  *)
(* of records consumed; an accepted record adds one to valid_points only and is  *)
(* appended to the buffer (which is then flushed when full); a rejected record   *)
(* adds one to invalid_points only and leaves buffer and sink as they were.      *)
CounterInvariant ==
    [][ /\ performance_stats'.total_points =
             performance_stats'.valid_points + performance_stats'.invalid_points
        /\ ConsumedOne =>
             /\ performance_stats'.total_points = performance_stats.total_points + 1
             /\ exports = 1 => performance_stats'.total_points = consumed'
             /\ step'.kind \in {"accepted", "rejected"}
             /\ step'.kind = "accepted" =>
                   /\ performance_stats'.valid_points = performance_stats.valid_points + 1
                   /\ performance_stats'.invalid_points = performance_stats.invalid_points
                   /\ Len(accepted') = Len(accepted) + 1
                   /\ \/ data_buffer' = Append(data_buffer, Last(accepted'))
                      \/ /\ flush'.calls = flush.calls + 1
                         /\ flush'.failed
                      \/ /\ flush'.calls = flush.calls + 1
                         /\ data_buffer' = << >>
                         /\ output'.rows =
                                output.rows \o RowsOf(Append(data_buffer, Last(accepted')))
             /\ step'.kind = "rejected" =>
                   /\ performance_stats'.invalid_points = performance_stats.invalid_points + 1
                   /\ performance_stats'.valid_points = performance_stats.valid_points
                   /\ accepted' = accepted
                   /\ data_buffer' = data_buffer
                   /\ output' = output
      ]_vars

CounterInvariantWitness ==
    /\ pc = "streaming"
    /\ exports = 1
    /\ step.kind = "rejected"
    /\ performance_stats = [total_points |-> 3, valid_points |-> 1, invalid_points |-> 2,
                            processing_time |-> 0]
    /\ Len(data_buffer) = 1
    /\ buffer_size = 2

(* C15: the buffer never holds more than buffer_size validated records. *)
BufferBound == Len(data_buffer) <= buffer_size

(* the raw timestamp is a number below the window of clock reading now *)
TooOld(value, now) == value.k = "num" /\ value.v < now - HourMs

(* the raw timestamp is a number, or an integer beyond every float, above the window *)
TooNew(value, now) ==
    \/ value.k = "huge"
    \/ value.k = "num" /\ value.v > now + FutureToleranceMs

(* int() of the raw timestamp fails *)
Uncoercible(value) == value.k \in {"none", "empty", "text", "nan", "inf", "list"}

(* C16: after every call of validate_timestamp the stored last_timestamp is the   *)
(* value the call returned when it accepted, also when that value is smaller     *)
(* than the one stored before, and is the one stored before when the call        *)
(* rejected: for a value that cannot be coerced, one too far in the past, one    *)
(* too far in the future; validate_data_point on a record that lacks a required  *)
(* key leaves it as it was too.                                                  *)
LastTimestampTracking ==
    /\ call.fn = "timestamp" =>
          /\ IF call.ret # NoneV
             THEN last_timestamp = [has |-> TRUE, n |-> call.ret.v]
             ELSE last_timestamp = call.last
          /\ InWindow(call.value, call.now) =>
                last_timestamp = [has |-> TRUE, n |-> call.value.v]
          /\ Uncoercible(call.value) => last_timestamp = call.last
          /\ TooOld(call.value, call.now) => last_timestamp = call.last
          /\ TooNew(call.value, call.now) => last_timestamp = call.last
    /\ call.fn = "record" =>
          /\ LacksRequiredKey(call.sample) => (call.ret = NoneV /\ last_timestamp = call.last)
          /\ call.ret # NoneV => last_timestamp = [has |-> TRUE, n |-> call.ret.v]

(* a timestamp was accepted, then one too far in the future rejected, then a *)
(* smaller one accepted: the stored timestamp is the smaller one              *)
LastTimestampTrackingWitness ==
    /\ call.fn = "timestamp"
    /\ call.last = [has |-> TRUE, n |-> TBase + SampleInterval]
    /\ call.value = Num(TBase, 0)
    /\ call.ret = Val("int", TBase, 0)
    /\ last_timestamp = [has |-> TRUE, n |-> TBase]

(* C17: validate_timestamp returns None, and raises nothing, for a value that    *)
(* cannot be coerced to an integer, for one more than an hour before the clock   *)
(* reading and for one more than 1000 ms after it; it returns every integer in   *)
(* the window unchanged, whatever last_timestamp holds.                          *)
TimestampWindow ==
    call.fn = "timestamp" =>
        /\ call.st = "ok"
        /\ call.value.k \notin {"num", "huge"} => call.ret = NoneV
        /\ call.value.k = "huge" => call.ret = NoneV
        /\ (call.value.k = "num" /\ call.value.m = 0) =>
              IF InWindow(call.value, call.now)
              THEN call.ret = Val("int", call.value.v, 0)
              ELSE call.ret = NoneV

(* C18: in the first export of an exporter, while no flush has failed, the rows  *)
(* written followed by the rows of the buffered records are the rows of the      *)
(* accepted records in input order, each once; the returned artifact holds        *)
(* exactly these rows.                                                            *)
OrderExactlyOnce ==
    (exports = 1 /\ ~flush.failed) =>
        /\ output.rows \o RowsOf(data_buffer) = RowsOf(accepted)
        /\ pc = "done" => (data_buffer = << >> /\ result.rows = RowsOf(accepted))

OrderExactlyOnceWitness ==
    /\ exports = 1
    /\ pc = "done"
    /\ buffer_size = 2
    /\ Len(accepted) = 3
    /\ accepted[1] # accepted[2] /\ accepted[2] # accepted[3] /\ accepted[1] # accepted[3]
    /\ result.rows = RowsOf(accepted)

(* C19: every data row of a returned artifact is the row of a record accepted   *)
(* in the export that returned it.                                               *)
CrossExportIsolation ==
    pc = "done" =>
        \A i \in 1..Len(result.rows) :
            \E j \in 1..Len(accepted) : result.rows[i] = Row(accepted[j])

====
